---- MODULE Spec2Model ----
(***************************************************************************)
(* Model of tools/video-analyzer.py: the command line run (main and the    *)
(* __main__ guard), VideoAnalyzer.analyze with the transcript acquisition  *)
(* chain and its file cache, the status file, and the pure analysis        *)
(* functions.  Text is a sequence of one-character strings, so substring   *)
(* containment, lower-casing, splitting and stripping are computed.        *)
(***************************************************************************)
EXTENDS Integers, Sequences, FiniteSets, TLC

VARIABLES
    cache,      \* CACHE_DIR: video id -> the state of its cache file
    reports,    \* ANALYSIS_DIR: set of report file names <<video id, timestamp>>
    status,     \* STATUS_FILE: "absent" or "present" (its text is never read)
    clock,      \* datetime.now() at one-second resolution
    runs,       \* number of command line runs started
    pc,         \* position of the running process
    args,       \* parsed arguments: [url, whisper, model, json]
    loc,        \* locals of analyze / get_transcript / the caption path
    result,     \* what analyze returned (returned = FALSE until it does)
    exitCode,   \* process exit code: NoneV while running, else <<code>>
    trace,      \* history: the calls the current run has made, in order
    calls,      \* history: one summary per get_transcript call: the id, whether
                \* the cache file existed, network-path invocations, the outcome
    firstWrite, \* history: video id -> the first record a fetch wrote, or "none"
    h_pc,       \* pure-function harness: "in" | "out" | "off"
    h_in,       \* harness input
    h_out       \* harness output

vars == <<cache, reports, status, clock, runs, pc, args, loc, result, exitCode,
          trace, calls, firstWrite, h_pc, h_in, h_out>>

progVars == <<cache, reports, status, clock, runs, pc, args, loc, result,
              exitCode, trace, calls, firstWrite>>

harnessVars == <<h_pc, h_in, h_out>>

(***************************************************************************)
(* Text primitives (Python str operations used by the program).            *)
(***************************************************************************)

\* p in s
Contains(s, p) ==
    \E i \in 0..(Len(s) - Len(p)) : \A j \in 1..Len(p) : s[i + j] = p[j]

\* one character of str.lower()
LowerChar(c) ==
    CASE c = "A" -> "a"
      [] c = "B" -> "b"
      [] c = "C" -> "c"
      [] c = "D" -> "d"
      [] c = "E" -> "e"
      [] c = "F" -> "f"
      [] c = "G" -> "g"
      [] c = "H" -> "h"
      [] c = "I" -> "i"
      [] c = "J" -> "j"
      [] c = "K" -> "k"
      [] c = "L" -> "l"
      [] c = "M" -> "m"
      [] c = "N" -> "n"
      [] c = "O" -> "o"
      [] c = "P" -> "p"
      [] c = "Q" -> "q"
      [] c = "R" -> "r"
      [] c = "S" -> "s"
      [] c = "T" -> "t"
      [] c = "U" -> "u"
      [] c = "V" -> "v"
      [] c = "W" -> "w"
      [] c = "X" -> "x"
      [] c = "Y" -> "y"
      [] c = "Z" -> "z"
      [] OTHER -> c

\* str.lower()
Lower(s) == [i \in 1..Len(s) |-> LowerChar(s[i])]

IsSpace(c) == c = " "

RECURSIVE LStrip(_)
LStrip(s) == IF s # <<>> /\ IsSpace(Head(s)) THEN LStrip(Tail(s)) ELSE s

RECURSIVE RStrip(_)
RStrip(s) ==
    IF s # <<>> /\ IsSpace(s[Len(s)]) THEN RStrip(SubSeq(s, 1, Len(s) - 1)) ELSE s

\* str.strip()
Strip(s) == RStrip(LStrip(s))

IsDelim(c) == c \in {".", "!", "?"}

\* re.split(r'[.!?]', text)
RECURSIVE SplitSentences(_)
SplitSentences(s) ==
    IF \A i \in 1..Len(s) : ~IsDelim(s[i])
    THEN <<s>>
    ELSE LET k == CHOOSE i \in 1..Len(s) :
                      IsDelim(s[i]) /\ \A j \in 1..(i - 1) : ~IsDelim(s[j])
         IN  <<SubSeq(s, 1, k - 1)>> \o SplitSentences(SubSeq(s, k + 1, Len(s)))

\* list[:n]
Take(l, n) == SubSeq(l, 1, IF Len(l) < n THEN Len(l) ELSE n)

Min(a, b) == IF a < b THEN a ELSE b

(***************************************************************************)
(* Keyword lists of identify_strategy_components.                          *)
(***************************************************************************)

entry_keywords ==
    << <<"e","n","t","e","r">>, <<"b","u","y">>, <<"l","o","n","g">>,
       <<"e","n","t","r","y">>, <<"g","o"," ","l","o","n","g">>,
       <<"o","p","e","n">>, <<"g","e","t"," ","i","n">> >>

exit_keywords ==
    << <<"e","x","i","t">>, <<"s","e","l","l">>, <<"c","l","o","s","e">>,
       <<"t","a","k","e"," ","p","r","o","f","i","t">>,
       <<"s","t","o","p"," ","l","o","s","s">>,
       <<"g","e","t"," ","o","u","t">>, <<"s","h","o","r","t">> >>

risk_keywords ==
    << <<"r","i","s","k">>,
       <<"p","o","s","i","t","i","o","n"," ","s","i","z","e">>,
       <<"m","o","n","e","y"," ","m","a","n","a","g","e","m","e","n","t">>,
       <<"d","r","a","w","d","o","w","n">>, <<"s","t","o","p">>,
       <<"l","o","s","s">> >>

rule_keywords ==
    << <<"a","l","w","a","y","s">>, <<"n","e","v","e","r">>, <<"m","u","s","t">>,
       <<"i","m","p","o","r","t","a","n","t">>, <<"r","u","l","e">>,
       <<"k","e","y">> >>

kwWhen == <<"w","h","e","n">>
kwIf   == <<"i","f">>
kwOnce == <<"o","n","c","e">>
kwAt   == <<"a","t">>

\* any(word in sentence_lower for word in keywords)
AnyIn(keywords, sentence_lower) ==
    \E i \in 1..Len(keywords) : Contains(sentence_lower, keywords[i])

MinSentenceLen == 10
ComponentLimit == 5

IsEntryCondition(sentence) ==
    LET sl == Lower(sentence)
    IN  /\ AnyIn(entry_keywords, sl)
        /\ (Contains(sl, kwWhen) \/ Contains(sl, kwIf) \/ Contains(sl, kwOnce))

IsExitCondition(sentence) ==
    LET sl == Lower(sentence)
    IN  /\ AnyIn(exit_keywords, sl)
        /\ (Contains(sl, kwWhen) \/ Contains(sl, kwIf) \/ Contains(sl, kwAt))

IsRiskSentence(sentence) == AnyIn(risk_keywords, Lower(sentence))

IsKeyRule(sentence) == AnyIn(rule_keywords, Lower(sentence))

LongEnough(sentence) == Len(sentence) >= MinSentenceLen

\* the stripped sentences the loop does not skip
CandidateSentences(text) ==
    LET raw == SplitSentences(text)
        stripped == [i \in 1..Len(raw) |-> Strip(raw[i])]
    IN  SelectSeq(stripped, LongEnough)

identify_strategy_components(text) ==
    LET cand == CandidateSentences(text)
    IN  [ entry_conditions |-> Take(SelectSeq(cand, IsEntryCondition), ComponentLimit),
          exit_conditions  |-> Take(SelectSeq(cand, IsExitCondition), ComponentLimit),
          risk_management  |-> Take(SelectSeq(cand, IsRiskSentence), ComponentLimit),
          key_rules        |-> Take(SelectSeq(cand, IsKeyRule), ComponentLimit) ]

\* a script type that asks for entry and exit conditions both
script_type_both(components) ==
    IF components.entry_conditions # <<>> /\ components.exit_conditions # <<>>
    THEN "strategy" ELSE "indicator"

\* generate_pine_script_spec: the script type
script_type(components) ==
    IF components.entry_conditions # <<>> \/ components.exit_conditions # <<>>
    THEN "strategy" ELSE "indicator"

\* a score that adds the list lengths without the caps
_calculate_complexity_uncapped(concepts, components) ==
    1 + Len(concepts.indicators) + Len(concepts.patterns)
      + (IF components.entry_conditions # <<>> THEN 1 ELSE 0)
      + (IF components.exit_conditions # <<>> THEN 1 ELSE 0)
      + (IF components.risk_management # <<>> THEN 1 ELSE 0)
      + (IF Len(concepts.timeframes) > 1 THEN 1 ELSE 0)

_calculate_complexity(concepts, components) ==
    LET s1 == 1 + Min(Len(concepts.indicators), 3)
        s2 == s1 + Min(Len(concepts.patterns), 2)
        s3 == s2 + (IF components.entry_conditions # <<>> THEN 1 ELSE 0)
        s4 == s3 + (IF components.exit_conditions # <<>> THEN 1 ELSE 0)
        s5 == s4 + (IF components.risk_management # <<>> THEN 1 ELSE 0)
        s6 == s5 + (IF Len(concepts.timeframes) > 1 THEN 1 ELSE 0)
    IN  Min(s6, 10)

(***************************************************************************)
(* _assess_feasibility: the issues found in the concepts and the flags     *)
(* derived from them.                                                      *)
(***************************************************************************)

problematic ==
    << <<"m","a","c","h","i","n","e"," ","l","e","a","r","n","i","n","g">>, <<"n","e","u","r","a","l"," ","n","e","t","w","o","r","k">>,
       <<"a","i">>, <<"s","e","n","t","i","m","e","n","t">>, <<"n","e","w","s">> >>

ManyIndicators == 5

\* the issue raised for each term that contains a problematic word, in order
RECURSIVE TermIssues(_)
TermIssues(terms) ==
    IF terms = <<>> THEN <<>>
    ELSE (IF AnyIn(problematic, Lower(Head(terms)))
          THEN <<[kind |-> "may_require_external_data", term |-> Head(terms)]>>
          ELSE <<>>) \o TermIssues(Tail(terms))

FeasibilityIssues(concepts) ==
    TermIssues(concepts.strategies \o concepts.indicators)
        \o (IF Len(concepts.indicators) > ManyIndicators
            THEN <<[kind |-> "many_indicators", term |-> <<>>]>>
            ELSE <<>>)

\* a compatibility flag that looks at the problematic terms only
_assess_feasibility_terms_only(concepts, components) ==
    LET issues == FeasibilityIssues(concepts)
    IN  [ overall |-> IF issues = <<>> THEN "full" ELSE "partial",
          issues |-> issues,
          pine_script_compatible |->
              TermIssues(concepts.strategies \o concepts.indicators) = <<>> ]

_assess_feasibility(concepts, components) ==
    LET issues == FeasibilityIssues(concepts)
    IN  [ overall |-> IF issues = <<>> THEN "full" ELSE "partial",
          issues |-> issues,
          pine_script_compatible |-> Len(issues) = 0 ]

(***************************************************************************)
(* extract_video_id: re.search of five patterns, each a literal prefix     *)
(* followed by the group ([\w-]+).                                         *)
(***************************************************************************)

\* the ASCII part of [\w-]
WordChars ==
    {"a","b","c","d","e","f","g","h","i","j","k","l","m","n","o","p","q","r","s","t","u","v","w","x","y","z",
     "A","B","C","D","E","F","G","H","I","J","K","L","M","N","O","P","Q","R","S","T","U","V","W","X","Y","Z",
     "0","1","2","3","4","5","6","7","8","9","_","-"}

IsWordChar(c) == c \in WordChars

NoneV == <<>>
Some(x) == <<x>>

pWatch  == <<"y","o","u","t","u","b","e",".","c","o","m","/","w","a","t","c","h","?","v","=">>
pShort  == <<"y","o","u","t","u",".","b","e","/">>
pEmbed  == <<"y","o","u","t","u","b","e",".","c","o","m","/","e","m","b","e","d","/">>
pV      == <<"y","o","u","t","u","b","e",".","c","o","m","/","v","/">>
pShorts == <<"y","o","u","t","u","b","e",".","c","o","m","/","s","h","o","r","t","s","/">>

\* the same patterns tried in the opposite order
patterns_reversed == <<pShorts, pV, pEmbed, pShort, pWatch>>

patterns == <<pWatch, pShort, pEmbed, pV, pShorts>>

\* the pattern matches with its literal prefix starting at position i
MatchAt(url, prefix, i) ==
    /\ i + Len(prefix) <= Len(url)
    /\ \A j \in 1..Len(prefix) : url[i + j - 1] = prefix[j]
    /\ IsWordChar(url[i + Len(prefix)])

\* the longest run of [\w-] characters starting at position k
RECURSIVE WordRun(_, _)
WordRun(url, k) ==
    IF k <= Len(url) /\ IsWordChar(url[k])
    THEN <<url[k]>> \o WordRun(url, k + 1)
    ELSE <<>>

\* re.search(pattern, url): group(1) of the leftmost match, or None
SearchPattern(url, prefix) ==
    IF \E i \in 1..Len(url) : MatchAt(url, prefix, i)
    THEN LET i == CHOOSE i \in 1..Len(url) :
                      MatchAt(url, prefix, i)
                      /\ \A j \in 1..(i - 1) : ~MatchAt(url, prefix, j)
         IN  Some(WordRun(url, i + Len(prefix)))
    ELSE NoneV

RECURSIVE FirstMatch(_, _)
FirstMatch(url, k) ==
    IF k > Len(patterns) THEN NoneV
    ELSE IF SearchPattern(url, patterns[k]) # NoneV
         THEN SearchPattern(url, patterns[k])
         ELSE FirstMatch(url, k + 1)

extract_video_id(url) == FirstMatch(url, 1)

(***************************************************************************)
(* Clean-up of the caption text in get_transcript_from_youtube.  The note  *)
(* character of the second substitution is written "~" here.               *)
(***************************************************************************)

\* re.sub(open + '.*?' + close, '', s) for one-character delimiters
RECURSIVE RemoveDelimited(_, _, _)
RemoveDelimited(s, open, close) ==
    IF \E i \in 1..Len(s) : s[i] = open /\ \E j \in (i + 1)..Len(s) : s[j] = close
    THEN LET i == CHOOSE i \in 1..Len(s) :
                      /\ s[i] = open /\ \E j \in (i + 1)..Len(s) : s[j] = close
                      /\ \A k \in 1..(i - 1) :
                             ~(s[k] = open /\ \E j \in (k + 1)..Len(s) : s[j] = close)
             j == CHOOSE j \in (i + 1)..Len(s) :
                      s[j] = close /\ \A k \in (i + 1)..(j - 1) : s[k] # close
         IN  SubSeq(s, 1, i - 1) \o RemoveDelimited(SubSeq(s, j + 1, Len(s)), open, close)
    ELSE s

\* re.sub(r'\s+', ' ', s)
RECURSIVE CollapseSpaces(_)
CollapseSpaces(s) ==
    IF s = <<>> THEN <<>>
    ELSE IF IsSpace(Head(s))
         THEN <<" ">> \o CollapseSpaces(LStrip(s))
         ELSE <<Head(s)>> \o CollapseSpaces(Tail(s))

CleanText(s) ==
    Strip(CollapseSpaces(RemoveDelimited(RemoveDelimited(s, "[", "]"), "~", "~")))

(***************************************************************************)
(* extract_key_concepts over TRADING_KEYWORDS (the numeric extractions of  *)
(* 'specific_values' are left out: nothing downstream branches on them).   *)
(***************************************************************************)

kw_indicators ==
    <<
       <<"r","s","i">>,
       <<"r","e","l","a","t","i","v","e"," ","s","t","r","e","n","g","t","h">>,
       <<"m","a","c","d">>, <<"m","o","v","i","n","g"," ","a","v","e","r","a","g","e">>,
       <<"e","m","a">>, <<"s","m","a">>, <<"w","m","a">>,
       <<"b","o","l","l","i","n","g","e","r"," ","b","a","n","d","s">>,
       <<"b","o","l","l","i","n","g","e","r">>, <<"s","t","o","c","h","a","s","t","i","c">>,
       <<"v","o","l","u","m","e">>, <<"a","t","r">>,
       <<"a","v","e","r","a","g","e"," ","t","r","u","e"," ","r","a","n","g","e">>,
       <<"a","d","x">>, <<"i","c","h","i","m","o","k","u">>,
       <<"f","i","b","o","n","a","c","c","i">>, <<"f","i","b">>,
       <<"p","i","v","o","t"," ","p","o","i","n","t","s">>, <<"s","u","p","p","o","r","t">>,
       <<"r","e","s","i","s","t","a","n","c","e">>, <<"v","w","a","p">>,
       <<"m","o","m","e","n","t","u","m">>, <<"c","c","i">>,
       <<"c","o","m","m","o","d","i","t","y"," ","c","h","a","n","n","e","l">>,
       <<"w","i","l","l","i","a","m","s">>, <<"o","b","v">>,
       <<"o","n"," ","b","a","l","a","n","c","e">>, <<"k","e","l","t","n","e","r">>,
       <<"d","o","n","c","h","i","a","n">>,
       <<"p","a","r","a","b","o","l","i","c"," ","s","a","r">>,
       <<"s","u","p","e","r","t","r","e","n","d">>,
       <<"h","e","i","k","i","n"," ","a","s","h","i">>
    >>

kw_patterns ==
    <<
       <<"b","r","e","a","k","o","u","t">>, <<"t","r","e","n","d">>,
       <<"r","e","v","e","r","s","a","l">>, <<"d","i","v","e","r","g","e","n","c","e">>,
       <<"c","o","n","v","e","r","g","e","n","c","e">>,
       <<"b","u","l","l","i","s","h"," ","d","i","v","e","r","g","e","n","c","e">>,
       <<"b","e","a","r","i","s","h"," ","d","i","v","e","r","g","e","n","c","e">>,
       <<"h","i","d","d","e","n"," ","d","i","v","e","r","g","e","n","c","e">>,
       <<"c","r","o","s","s">>, <<"c","r","o","s","s","o","v","e","r">>,
       <<"c","r","o","s","s","u","n","d","e","r">>,
       <<"g","o","l","d","e","n"," ","c","r","o","s","s">>,
       <<"d","e","a","t","h"," ","c","r","o","s","s">>, <<"s","q","u","e","e","z","e">>,
       <<"f","l","a","g">>, <<"p","e","n","n","a","n","t">>,
       <<"t","r","i","a","n","g","l","e">>,
       <<"h","e","a","d"," ","a","n","d"," ","s","h","o","u","l","d","e","r","s">>,
       <<"d","o","u","b","l","e"," ","t","o","p">>,
       <<"d","o","u","b","l","e"," ","b","o","t","t","o","m">>,
       <<"c","u","p"," ","a","n","d"," ","h","a","n","d","l","e">>, <<"w","e","d","g","e">>,
       <<"c","h","a","n","n","e","l">>, <<"r","a","n","g","e">>,
       <<"c","o","n","s","o","l","i","d","a","t","i","o","n">>,
       <<"p","u","l","l","b","a","c","k">>, <<"r","e","t","r","a","c","e","m","e","n","t">>
    >>

kw_strategies ==
    <<
       <<"s","c","a","l","p","i","n","g">>, <<"d","a","y"," ","t","r","a","d","i","n","g">>,
       <<"s","w","i","n","g"," ","t","r","a","d","i","n","g">>,
       <<"p","o","s","i","t","i","o","n"," ","t","r","a","d","i","n","g">>,
       <<"m","e","a","n"," ","r","e","v","e","r","s","i","o","n">>,
       <<"t","r","e","n","d"," ","f","o","l","l","o","w","i","n","g">>,
       <<"m","o","m","e","n","t","u","m"," ","t","r","a","d","i","n","g">>,
       <<"b","r","e","a","k","o","u","t"," ","t","r","a","d","i","n","g">>,
       <<"r","a","n","g","e"," ","t","r","a","d","i","n","g">>,
       <<"g","r","i","d"," ","t","r","a","d","i","n","g">>,
       <<"m","a","r","t","i","n","g","a","l","e">>, <<"d","c","a">>,
       <<"d","o","l","l","a","r"," ","c","o","s","t"," ","a","v","e","r","a","g","i","n","g">>,
       <<"s","m","a","r","t"," ","m","o","n","e","y">>,
       <<"o","r","d","e","r"," ","b","l","o","c","k">>,
       <<"f","a","i","r"," ","v","a","l","u","e"," ","g","a","p">>, <<"f","v","g">>,
       <<"l","i","q","u","i","d","i","t","y">>
    >>

kw_conditions ==
    <<
       <<"e","n","t","r","y">>, <<"e","x","i","t">>,
       <<"s","t","o","p"," ","l","o","s","s">>,
       <<"t","a","k","e"," ","p","r","o","f","i","t">>,
       <<"r","i","s","k"," ","m","a","n","a","g","e","m","e","n","t">>,
       <<"p","o","s","i","t","i","o","n"," ","s","i","z","i","n","g">>,
       <<"t","r","a","i","l","i","n","g"," ","s","t","o","p">>,
       <<"b","r","e","a","k"," ","e","v","e","n">>, <<"s","i","g","n","a","l">>,
       <<"a","l","e","r","t">>, <<"c","o","n","f","i","r","m","a","t","i","o","n">>,
       <<"f","i","l","t","e","r">>, <<"t","r","i","g","g","e","r">>,
       <<"b","u","y"," ","s","i","g","n","a","l">>,
       <<"s","e","l","l"," ","s","i","g","n","a","l">>, <<"l","o","n","g">>,
       <<"s","h","o","r","t">>, <<"c","l","o","s","e"," ","p","o","s","i","t","i","o","n">>,
       <<"p","a","r","t","i","a","l"," ","p","r","o","f","i","t">>
    >>

kw_timeframes ==
    <<
       <<"1"," ","m","i","n","u","t","e">>, <<"5"," ","m","i","n","u","t","e">>,
       <<"1","5"," ","m","i","n","u","t","e">>, <<"3","0"," ","m","i","n","u","t","e">>,
       <<"1"," ","h","o","u","r">>, <<"4"," ","h","o","u","r">>, <<"d","a","i","l","y">>,
       <<"w","e","e","k","l","y">>, <<"m","o","n","t","h","l","y">>,
       <<"m","u","l","t","i"," ","t","i","m","e","f","r","a","m","e">>, <<"m","t","f">>,
       <<"h","i","g","h","e","r"," ","t","i","m","e","f","r","a","m","e">>,
       <<"l","o","w","e","r"," ","t","i","m","e","f","r","a","m","e">>, <<"h","t","f">>,
       <<"l","t","f">>, <<"m","1">>, <<"m","5">>, <<"m","1","5">>, <<"m","3","0">>,
       <<"h","1">>, <<"h","4">>, <<"d","1">>
    >>

\* the occurrence of p at position i (1-based) of s
OccursAt(s, p, i) == i + Len(p) - 1 <= Len(s) /\ \A j \in 1..Len(p) : s[i + j - 1] = p[j]

\* str.count: non-overlapping occurrences, scanning from position i
RECURSIVE CountFrom(_, _, _)
CountFrom(s, p, i) ==
    IF i + Len(p) - 1 > Len(s) THEN 0
    ELSE IF OccursAt(s, p, i) THEN 1 + CountFrom(s, p, i + Len(p))
         ELSE CountFrom(s, p, i + 1)

Count(s, p) == CountFrom(s, p, 1)

\* the items {term, count} of the keywords found, in list order
RECURSIVE FoundItems(_, _, _)
FoundItems(text_lower, keywords, k) ==
    IF k > Len(keywords) THEN <<>>
    ELSE (IF Contains(text_lower, keywords[k])
          THEN <<[term |-> keywords[k], count |-> Count(text_lower, keywords[k])]>>
          ELSE <<>>) \o FoundItems(text_lower, keywords, k + 1)

\* insertion of x into a list sorted by descending count, after its equals
RECURSIVE InsertByCount(_, _)
InsertByCount(sorted, x) ==
    IF sorted = <<>> THEN <<x>>
    ELSE IF Head(sorted).count >= x.count
         THEN <<Head(sorted)>> \o InsertByCount(Tail(sorted), x)
         ELSE <<x>> \o sorted

\* the items left in the order in which they were found
SortByCount_unsorted(items) == items

\* sorted(items, key=lambda x: -x['count']) (stable)
RECURSIVE SortByCount(_)
SortByCount(items) ==
    IF items = <<>> THEN <<>>
    ELSE InsertByCount(SortByCount(SubSeq(items, 1, Len(items) - 1)), items[Len(items)])

\* the terms in order, each kept the first time it is seen
RECURSIVE UniqueTerms(_, _)
UniqueTerms(items, seen) ==
    IF items = <<>> THEN <<>>
    ELSE IF Head(items).term \in seen
         THEN UniqueTerms(Tail(items), seen)
         ELSE <<Head(items).term>> \o UniqueTerms(Tail(items), seen \cup {Head(items).term})

TopN == 10

TopTerms(text_lower, keywords) ==
    Take(UniqueTerms(SortByCount(FoundItems(text_lower, keywords, 1)), {}), TopN)

extract_key_concepts(text) ==
    LET tl == Lower(text)
    IN  [ indicators |-> TopTerms(tl, kw_indicators),
          patterns   |-> TopTerms(tl, kw_patterns),
          strategies |-> TopTerms(tl, kw_strategies),
          conditions |-> TopTerms(tl, kw_conditions),
          timeframes |-> TopTerms(tl, kw_timeframes) ]

(***************************************************************************)
(* Inputs of the command line runs and of the services they call.          *)
(***************************************************************************)

urlWatch == <<"y","o","u","t","u","b","e",".","c","o","m","/","w","a","t","c","h","?","v","=","a","1">>
urlShort == <<"y","o","u","t","u",".","b","e","/","b","2">>
urlOther == <<"v","i","m","e","o",".","c","o","m","/","a","1">>

Urls == {urlWatch, urlShort, urlOther}

VideoIdOf == [u \in Urls |-> extract_video_id(u)]

VideoIds == {VideoIdOf[u][1] : u \in {w \in Urls : VideoIdOf[w] # NoneV}}

\* --model: the default and one of the other argparse choices
Models == {"base", "medium"}

capStrategy == <<"B","u","y"," ","w","h","e","n"," ","t","h","e"," ","m","a","r","k","e","t"," ","d","i","p","s">>
capMusic    == <<"[","M","u","s","i","c","]">>
whisperText == <<"t","h","e"," ","m","a","r","k","e","t"," ","i","s"," ","u","p"," ","t","o","d","a","y">>

\* what transcript.fetch() can deliver, joined, before the clean-up
RawCaptions == {capStrategy, capMusic}

\* what whisper's transcribe can deliver as result["text"]
WhisperTexts == {whisperText, <<>>}

\* language codes the caption path asks for
EnCodes == {"en", "en-US", "en-GB"}

\* language codes of the tracks a video lists
LangCodes == {"en-GB", "de"}

Tracks == [language_code : LangCodes, is_generated : BOOLEAN]

MaxTracks == 2

TrackLists == UNION {[1..n -> Tracks] : n \in 0..MaxTracks}

MaxRuns == 2

(***************************************************************************)
(* State of the files and of one process.                                  *)
(***************************************************************************)

\* a cache file: missing, opened for writing but not yet dumped, or complete
Absent == [kind |-> "absent", text |-> <<>>, source |-> ""]
Partial == [kind |-> "partial", text |-> <<>>, source |-> ""]
Record(t, src) == [kind |-> "record", text |-> t, source |-> src]

NoArgs == [url |-> <<>>, whisper |-> FALSE, model |-> "base", json |-> FALSE]

NoLoc ==
    [ video_id |-> NoneV, transcript |-> NoneV, source |-> "", tlist |-> <<>>,
      track |-> NoneV, whisper_loaded |-> FALSE, script_type |-> "",
      complexity_score |-> 0 ]

NoResult ==
    [ returned |-> FALSE, success |-> FALSE, error |-> "", script_type |-> "",
      complexity_score |-> 0, saved_to |-> NoneV ]

Failure(msg) == [NoResult EXCEPT !.returned = TRUE, !.error = msg]

\* "if not transcript" / "if transcript"
Falsy(opt) == opt = NoneV \/ opt[1] = <<>>

\* set_status: the file is written, or the write fails and is ignored
set_status(ok) == IF ok THEN "present" ELSE status

\* a clear_status that leaves the file in place
clear_status_noop(ok) == status

\* clear_status: a file that exists is removed, or the removal fails and is ignored
clear_status(ok) == IF status # "absent" /\ ok THEN "absent" ELSE status

\* history: what the call of clear_status did
ClearEvent(ok) ==
    IF status # "absent" /\ ~ok THEN "clear_status_failed" ELSE "clear_status"

\* the later steps of a get_transcript call update its summary
ThisCall == calls[Len(calls)]
SetCall(c) == [calls EXCEPT ![Len(calls)] = c]
NetCall == SetCall([ThisCall EXCEPT !.net = ThisCall.net + 1])
EndCall(ret) == SetCall([ThisCall EXCEPT !.ret = ret])
NetEndCall(ret) == SetCall([ThisCall EXCEPT !.net = ThisCall.net + 1, !.ret = ret])

InCall == calls # <<>> /\ calls[Len(calls)].ret = "running"

\* transcript_list.find_transcript(['en', 'en-US', 'en-GB']): an English
\* transcript, or NoTranscriptFound
find_transcript(tlist) ==
    {NoneV} \cup {Some(t) : t \in {x \in Tracks : x.language_code \in EnCodes}}

\* find_transcript when it selects among the listed transcripts by the language
\* codes: one of the listed English transcripts, or NoTranscriptFound if there is none
find_transcript_listed(tlist) ==
    LET english == {tlist[i] : i \in {j \in 1..Len(tlist) : tlist[j].language_code \in EnCodes}}
    IN  IF english = {} THEN {NoneV} ELSE {Some(t) : t \in english}

CaptionErrors == {"disabled", "not_found", "unavailable", "error"}

Init ==
    /\ cache = [v \in VideoIds |-> Absent]
    /\ reports = {}
    /\ status = "absent"
    /\ clock = 0
    /\ runs = 0
    /\ pc = "idle"
    /\ args = NoArgs
    /\ loc = NoLoc
    /\ result = NoResult
    /\ exitCode = NoneV
    /\ trace = <<>>
    /\ calls = <<>>
    /\ firstWrite = [v \in VideoIds |-> Absent]
    /\ h_pc = "off"
    /\ h_in = <<>>
    /\ h_out = <<>>

\* datetime.now() of the next run, in seconds: later than the last run's, or the
\* same second (which shows only when that second already names a report)
Now ==
    {clock + 1} \cup (IF \E r \in reports : r[2] = clock THEN {clock} ELSE {})

(***************************************************************************)
(* main: argument parsing, construction of the analyzer.                   *)
(***************************************************************************)

\* one run of main, the limit-th at most
StartRunUpTo(limit, url, whisper, model, json) ==
    /\ pc \in {"idle", "done"}
    /\ runs < limit
    /\ runs' = runs + 1
    /\ clock' \in Now
    /\ args' = [url |-> url, whisper |-> whisper, model |-> model, json |-> json]
    /\ loc' = NoLoc
    /\ result' = NoResult
    /\ exitCode' = NoneV
    /\ trace' = <<>>
    /\ pc' = "analyze"
    /\ UNCHANGED <<cache, reports, status, calls, firstWrite, harnessVars>>

StartRun(url, whisper, model, json) == StartRunUpTo(MaxRuns, url, whisper, model, json)

(***************************************************************************)
(* VideoAnalyzer.analyze up to the transcript.                             *)
(***************************************************************************)

Analyze ==
    /\ pc = "analyze"
    /\ \E ok \in BOOLEAN : status' = set_status(ok)
    /\ trace' = trace \o <<"set_status", "extract_video_id">>
    /\ LET video_id == VideoIdOf[args.url]
       IN  IF Falsy(video_id)
           THEN /\ result' = Failure("Invalid YouTube URL")
                /\ pc' = "main_out"
                /\ loc' = loc
           ELSE /\ loc' = [loc EXCEPT !.video_id = video_id]
                /\ pc' = "metadata"
                /\ result' = result
    /\ UNCHANGED <<cache, reports, clock, runs, args, exitCode, calls, firstWrite,
                   harnessVars>>

\* an analyze that notes the metadata failure and goes on to the transcript
AfterMetadata_continue(fetched) == "get_transcript"

\* analyze after get_video_metadata: a metadata failure returns at once
AfterMetadata(fetched) == IF fetched THEN "get_transcript" ELSE "main_out"

GetVideoMetadata ==
    /\ pc = "metadata"
    /\ \E ok \in BOOLEAN : status' = set_status(ok)
    /\ trace' = trace \o <<"get_video_metadata", "set_status">>
    /\ \E fetched \in BOOLEAN :
          /\ pc' = AfterMetadata(fetched)
          /\ result' = IF fetched THEN result ELSE Failure("Could not access video")
    /\ UNCHANGED <<cache, reports, clock, runs, args, loc, exitCode, calls,
                   firstWrite, harnessVars>>

(***************************************************************************)
(* VideoAnalyzer.get_transcript: cache check, caption path, speech-to-text *)
(* path, cache write.                                                      *)
(***************************************************************************)

\* one cache file name for every video
cache_file_shared(video_id) == CHOOSE v \in VideoIds : TRUE

\* CACHE_DIR / f"{video_id}_transcript.json": the cache is keyed by the video id
cache_file(video_id) == video_id

\* a lookup that the force flag turns into a miss
CacheLookup_forced(file) ==
    CASE args.whisper -> "miss"
      [] file.kind = "record" -> "hit"
      [] file.kind = "partial" -> "unreadable"
      [] OTHER -> "miss"

\* cache_file.exists() and json.load: what the call finds under the file name
CacheLookup(file) ==
    CASE file.kind = "record" -> "hit"
      [] file.kind = "partial" -> "unreadable"
      [] OTHER -> "miss"

\* a cache hit that returns the stored tag as it is
CachedSource_bare(source) == source

\* cached['source'] + "_cached"
CachedSource(source) == source \o "_cached"

GetTranscript ==
    /\ pc = "get_transcript"
    /\ trace' = Append(trace, "cache_check")
    /\ LET id == cache_file(loc.video_id[1])
           found == CacheLookup(cache[id])
           call == [ id |-> loc.video_id[1],
                     exists |-> cache[loc.video_id[1]].kind # "absent",
                     net |-> 0, ret |-> "running" ]
       IN  CASE found = "hit" ->
                  /\ loc' = [loc EXCEPT !.transcript = Some(cache[id].text),
                                        !.source = CachedSource(cache[id].source)]
                  /\ calls' = Append(calls, [call EXCEPT !.ret = "text"])
                  /\ pc' = "got_transcript"
             [] found = "unreadable" ->
                  /\ loc' = loc
                  /\ calls' = Append(calls, [call EXCEPT !.ret = "raised"])
                  /\ pc' = "on_exception"
             [] OTHER ->
                  /\ loc' = loc
                  /\ calls' = Append(calls, call)
                  /\ pc' = IF args.whisper THEN "whisper" ELSE "yt_list"
    /\ UNCHANGED <<cache, reports, status, clock, runs, args, result, exitCode,
                   firstWrite, harnessVars>>

\* a get_transcript that asks the caption path again when it gave no transcript
AfterCaptions_retry(transcript) == IF Falsy(transcript) THEN "yt_list" ELSE "cache_open"

\* get_transcript after the caption path: "if transcript:" caches and returns,
\* otherwise control falls through to the speech-to-text path
AfterCaptions(transcript) == IF Falsy(transcript) THEN "whisper" ELSE "cache_open"

\* get_transcript_from_youtube: api.list
YtList ==
    /\ pc = "yt_list"
    /\ \E ok \in BOOLEAN : status' = set_status(ok)
    /\ trace' = trace \o <<"get_transcript_from_youtube", "set_status">>
    /\ calls' = NetCall
    /\ \/ \E tl \in TrackLists :
             /\ loc' = [loc EXCEPT !.tlist = tl]
             /\ pc' = "yt_manual"
       \/ \E err \in CaptionErrors :
             /\ loc' = [loc EXCEPT !.transcript = NoneV, !.source = err]
             /\ pc' = AfterCaptions(NoneV)
    /\ UNCHANGED <<cache, reports, clock, runs, args, result, exitCode, firstWrite,
                   harnessVars>>

\* a loop test that accepts the language code "en" only
FirstTrack_en_only(tlist, generated) ==
    LET hits == {i \in 1..Len(tlist) :
                    tlist[i].language_code = "en"
                    /\ tlist[i].is_generated = generated}
    IN  IF hits = {} THEN NoneV
        ELSE Some(tlist[CHOOSE i \in hits : \A j \in hits : i <= j])

\* the first track of the list that satisfies the loop's test, or None
FirstTrack(tlist, generated) ==
    LET hits == {i \in 1..Len(tlist) :
                    tlist[i].language_code \in EnCodes
                    /\ tlist[i].is_generated = generated}
    IN  IF hits = {} THEN NoneV
        ELSE Some(tlist[CHOOSE i \in hits : \A j \in hits : i <= j])

\* the loop looking for a manually created English transcript
YtManual ==
    /\ pc = "yt_manual"
    /\ trace' = Append(trace, "try_manual")
    /\ LET t == FirstTrack(loc.tlist, FALSE)
       IN  IF t # NoneV
           THEN /\ loc' = [loc EXCEPT !.track = t, !.source = "manual_captions"]
                /\ pc' = "yt_fetch"
           ELSE /\ loc' = loc
                /\ pc' = "yt_auto"
    /\ UNCHANGED <<cache, reports, status, clock, runs, args, result, exitCode,
                   calls, firstWrite, harnessVars>>

\* the loop looking for an auto-generated English transcript
YtAuto ==
    /\ pc = "yt_auto"
    /\ trace' = Append(trace, "try_auto")
    /\ LET t == FirstTrack(loc.tlist, TRUE)
       IN  IF t # NoneV
           THEN /\ loc' = [loc EXCEPT !.track = t, !.source = "auto_captions"]
                /\ pc' = "yt_fetch"
           ELSE /\ loc' = loc
                /\ pc' = "yt_any"
    /\ UNCHANGED <<cache, reports, status, clock, runs, args, result, exitCode,
                   calls, firstWrite, harnessVars>>

\* "Try any English variant", with what find_transcript can deliver
YtAnyFrom(found) ==
    /\ pc = "yt_any"
    /\ trace' = Append(trace, "try_any")
    /\ \E t \in found :
          IF t # NoneV
          THEN /\ loc' = [loc EXCEPT !.track = t, !.source = "english_captions"]
               /\ pc' = "yt_fetch"
          ELSE /\ loc' = [loc EXCEPT !.transcript = NoneV, !.source = "no_captions",
                                     !.tlist = <<>>]
               /\ pc' = AfterCaptions(NoneV)
    /\ UNCHANGED <<cache, reports, status, clock, runs, args, result, exitCode,
                   calls, firstWrite, harnessVars>>

YtAny == YtAnyFrom(find_transcript(loc.tlist))

\* transcript.fetch(), the join and the clean-up; back in get_transcript
YtFetch ==
    /\ pc = "yt_fetch"
    /\ \/ \E raw \in RawCaptions :
             LET full_text == CleanText(raw)
             IN  /\ loc' = [loc EXCEPT !.transcript = Some(full_text), !.track = NoneV,
                                       !.tlist = <<>>]
                 /\ pc' = AfterCaptions(Some(full_text))
                 /\ trace' = IF full_text # <<>> THEN Append(trace, "got_text")
                              ELSE trace
       \/ \E err \in CaptionErrors :
             /\ loc' = [loc EXCEPT !.transcript = NoneV, !.source = err,
                                   !.track = NoneV, !.tlist = <<>>]
             /\ pc' = AfterCaptions(NoneV)
             /\ trace' = trace
    /\ UNCHANGED <<cache, reports, status, clock, runs, args, result, exitCode,
                   calls, firstWrite, harnessVars>>

\* get_transcript_from_whisper: model load and audio download
Whisper ==
    /\ pc = "whisper"
    /\ \E ok \in BOOLEAN : status' = set_status(ok)
    /\ trace' = trace \o <<"get_transcript_from_whisper", "try_whisper", "set_status">>
    /\ \/ /\ loc' = [loc EXCEPT !.whisper_loaded = TRUE]
          /\ calls' = NetCall
          /\ pc' = "transcribe"
       \/ \E err \in {"whisper_error", "download_failed"} :
             /\ loc' = [loc EXCEPT !.transcript = NoneV, !.source = err]
             /\ calls' = NetEndCall("none")
             /\ pc' = "got_transcript"
    /\ UNCHANGED <<cache, reports, clock, runs, args, result, exitCode, firstWrite,
                   harnessVars>>

\* a get_transcript that caches whatever the speech-to-text path returned
AfterWhisper_always(transcript) == "cache_open"

\* get_transcript after the speech-to-text path: "if transcript:" caches, and the
\* call returns what the path returned
AfterWhisper(transcript) == IF Falsy(transcript) THEN "got_transcript" ELSE "cache_open"

\* get_transcript_from_whisper: transcription; back in get_transcript
Transcribe ==
    /\ pc = "transcribe"
    /\ \E ok \in BOOLEAN : status' = set_status(ok)
    /\ \/ \E text \in WhisperTexts :
             /\ loc' = [loc EXCEPT !.transcript = Some(text), !.source = "whisper"]
             /\ pc' = AfterWhisper(Some(text))
             /\ trace' = IF text # <<>> THEN trace \o <<"set_status", "got_text">>
                          ELSE Append(trace, "set_status")
             /\ calls' = IF pc' = "cache_open" THEN calls ELSE EndCall("none")
       \/ /\ loc' = [loc EXCEPT !.transcript = NoneV, !.source = "whisper_error"]
          /\ pc' = "got_transcript"
          /\ trace' = Append(trace, "set_status")
          /\ calls' = EndCall("none")
    /\ UNCHANGED <<cache, reports, clock, runs, args, result, exitCode, firstWrite,
                   harnessVars>>

\* open(cache_file, 'w'): the file is created empty, or the open raises
CacheOpen ==
    /\ pc = "cache_open"
    /\ \/ /\ cache' = [cache EXCEPT ![cache_file(loc.video_id[1])] = Partial]
          /\ pc' = "cache_dump"
          /\ calls' = calls
       \/ /\ cache' = cache
          /\ pc' = "on_exception"
          /\ calls' = EndCall("raised")
    /\ UNCHANGED <<reports, status, clock, runs, args, loc, result, exitCode, trace,
                   firstWrite, harnessVars>>

\* json.dump and close: the record is complete, or the write raises
CacheDump ==
    /\ pc = "cache_dump"
    /\ LET id == cache_file(loc.video_id[1])
           rec == Record(loc.transcript[1], loc.source)
       IN  \/ /\ cache' = [cache EXCEPT ![id] = rec]
              /\ firstWrite' = IF firstWrite[id].kind = "absent"
                               THEN [firstWrite EXCEPT ![id] = rec]
                               ELSE firstWrite
              /\ trace' = Append(trace, "cache_write")
              /\ pc' = "got_transcript"
              /\ calls' = EndCall("text")
           \/ /\ pc' = "on_exception"
              /\ calls' = EndCall("raised")
              /\ UNCHANGED <<cache, firstWrite, trace>>
    /\ UNCHANGED <<reports, status, clock, runs, args, loc, result, exitCode,
                   harnessVars>>

(***************************************************************************)
(* VideoAnalyzer.analyze after the transcript; save_analysis.              *)
(***************************************************************************)

\* the analysis of each transcript the services can deliver
Transcripts == {CleanText(raw) : raw \in RawCaptions} \cup WhisperTexts

AnalysisOf ==
    [ t \in Transcripts |->
        LET concepts == extract_key_concepts(t)
            components == identify_strategy_components(t)
        IN  [ script_type |-> script_type(components),
              complexity_score |-> _calculate_complexity(concepts, components) ] ]

GotTranscript ==
    /\ pc = "got_transcript"
    /\ IF Falsy(loc.transcript)
       THEN /\ result' = Failure("Could not get transcript")
            /\ pc' = "main_out"
            /\ UNCHANGED <<status, loc, trace>>
       ELSE LET spec == AnalysisOf[loc.transcript[1]]
            IN  /\ \E ok \in BOOLEAN : status' = set_status(ok)
                /\ loc' = [loc EXCEPT
                             !.script_type = spec.script_type,
                             !.complexity_score = spec.complexity_score]
                /\ trace' = trace \o <<"set_status", "analyze_content">>
                /\ pc' = "save"
                /\ result' = result
    /\ UNCHANGED <<cache, reports, clock, runs, args, exitCode, calls, firstWrite,
                   harnessVars>>

\* a report name without the timestamp
ReportName_notime(video_id, now) == <<video_id, 0>>

\* save_analysis names the file by the video id and the current second
ReportName(video_id, now) == <<video_id, now>>

SaveAnalysis ==
    /\ pc = "save"
    /\ LET filepath == ReportName(loc.video_id[1], clock)
       IN  \/ /\ reports' = reports \cup {filepath}
              /\ \E ok \in BOOLEAN : status' = set_status(ok)
              /\ result' = [ returned |-> TRUE, success |-> TRUE, error |-> "",
                             script_type |-> loc.script_type,
                             complexity_score |-> loc.complexity_score,
                             saved_to |-> Some(filepath) ]
              /\ trace' = trace \o <<"save_analysis", "set_status">>
              /\ pc' = "main_out"
           \/ /\ pc' = "on_exception"
              /\ trace' = Append(trace, "save_analysis")
              /\ UNCHANGED <<reports, status, result>>
    /\ UNCHANGED <<cache, clock, runs, args, loc, exitCode, calls, firstWrite,
                   harnessVars>>

(***************************************************************************)
(* main after analyze, and the handlers of the __main__ guard.             *)
(***************************************************************************)

MainExitCode(json, success) == IF json THEN 0 ELSE IF success THEN 0 ELSE 1

MainOut ==
    /\ pc = "main_out"
    /\ \E ok \in BOOLEAN :
          /\ status' = clear_status(ok)
          /\ trace' = Append(trace, ClearEvent(ok))
    /\ exitCode' = Some(MainExitCode(args.json, result.success))
    /\ pc' = "done"
    /\ loc' = NoLoc
    /\ UNCHANGED <<cache, reports, clock, runs, args, result, calls,
                   firstWrite, harnessVars>>

RunningPcs ==
    { "analyze", "metadata", "get_transcript", "yt_list", "yt_manual", "yt_auto",
      "yt_any", "yt_fetch", "whisper", "transcribe", "cache_open", "cache_dump",
      "got_transcript", "save", "main_out" }

\* Ctrl-C while main runs, and the handler "except KeyboardInterrupt"
KeyboardInterrupt ==
    /\ pc \in RunningPcs
    /\ \E ok \in BOOLEAN :
          /\ status' = clear_status(ok)
          /\ trace' = trace \o <<"KeyboardInterrupt", ClearEvent(ok)>>
    /\ exitCode' = Some(1)
    /\ pc' = "done"
    /\ loc' = NoLoc
    /\ calls' = IF InCall THEN EndCall("raised") ELSE calls
    /\ UNCHANGED <<cache, reports, clock, runs, args, result, firstWrite,
                   harnessVars>>

\* except Exception
OnException ==
    /\ pc = "on_exception"
    /\ \E ok \in BOOLEAN :
          /\ status' = clear_status(ok)
          /\ trace' = trace \o <<"Exception", ClearEvent(ok)>>
    /\ exitCode' = Some(1)
    /\ pc' = "done"
    /\ loc' = NoLoc
    /\ UNCHANGED <<cache, reports, clock, runs, args, result, calls,
                   firstWrite, harnessVars>>

Next ==
    \/ \E url \in Urls, whisper \in BOOLEAN, model \in Models, json \in BOOLEAN :
          StartRun(url, whisper, model, json)
    \/ Analyze
    \/ GetVideoMetadata
    \/ GetTranscript
    \/ YtList
    \/ YtManual
    \/ YtAuto
    \/ YtAny
    \/ YtFetch
    \/ Whisper
    \/ Transcribe
    \/ CacheOpen
    \/ CacheDump
    \/ GotTranscript
    \/ SaveAnalysis
    \/ MainOut
    \/ KeyboardInterrupt
    \/ OnException

Spec == Init /\ [][Next]_vars

(***************************************************************************)
(* Specification of the runs when find_transcript selects among the        *)
(* transcripts that api.list returned.                                     *)
(***************************************************************************)

YtAnyListed == YtAnyFrom(find_transcript_listed(loc.tlist))

NextListed ==
    \/ \E url \in Urls, whisper \in BOOLEAN, model \in Models, json \in BOOLEAN :
          StartRun(url, whisper, model, json)
    \/ Analyze
    \/ GetVideoMetadata
    \/ GetTranscript
    \/ YtList
    \/ YtManual
    \/ YtAuto
    \/ YtAnyListed
    \/ YtFetch
    \/ Whisper
    \/ Transcribe
    \/ CacheOpen
    \/ CacheDump
    \/ GotTranscript
    \/ SaveAnalysis
    \/ MainOut
    \/ KeyboardInterrupt
    \/ OnException

SpecListed == Init /\ [][NextListed]_vars

(***************************************************************************)
(* Specification of repeated runs on one video: up to MaxHitRuns runs of   *)
(* the same URL with the default model and text output, so that a cached   *)
(* transcript is hit more than once.                                       *)
(***************************************************************************)

MaxHitRuns == 3

NextHits ==
    \/ \E whisper \in BOOLEAN : StartRunUpTo(MaxHitRuns, urlShort, whisper, "base", FALSE)
    \/ Analyze
    \/ GetVideoMetadata
    \/ GetTranscript
    \/ YtList
    \/ YtManual
    \/ YtAuto
    \/ YtAny
    \/ YtFetch
    \/ Whisper
    \/ Transcribe
    \/ CacheOpen
    \/ CacheDump
    \/ GotTranscript
    \/ SaveAnalysis
    \/ MainOut
    \/ KeyboardInterrupt
    \/ OnException

SpecHits == Init /\ [][NextHits]_vars

(***************************************************************************)
(* Specification of the transcript classification: the transcript is any   *)
(* concatenation of at most MaxTokens tokens, and one step runs            *)
(* identify_strategy_components and the script-type rule on it.            *)
(***************************************************************************)

tBuy    == <<"B","u","y"," ">>
tSell   == <<"s","e","l","l"," ">>
tWhen   == <<"w","h","e","n"," ">>
tOnce   == <<"o","n","c","e"," ">>
tAt     == <<"a","t"," ">>
tMarket == <<"t","h","e"," ","m","a","r","k","e","t"," ">>
tDot    == <<"."," ">>

Tokens == {tBuy, tSell, tWhen, tOnce, tAt, tMarket, tDot}

MaxTokens == 3

RECURSIVE Concat(_)
Concat(parts) == IF parts = <<>> THEN <<>> ELSE Head(parts) \o Concat(Tail(parts))

TokenTexts == {Concat(ts) : ts \in UNION {[1..n -> Tokens] : n \in 0..MaxTokens}}

ProgIdle ==
    /\ cache = [v \in VideoIds |-> Absent]
    /\ reports = {}
    /\ status = "absent"
    /\ clock = 0
    /\ runs = 0
    /\ pc = "idle"
    /\ args = NoArgs
    /\ loc = NoLoc
    /\ result = NoResult
    /\ exitCode = NoneV
    /\ trace = <<>>
    /\ calls = <<>>
    /\ firstWrite = [v \in VideoIds |-> Absent]

InitText ==
    /\ ProgIdle
    /\ h_pc = "in"
    /\ h_in \in TokenTexts
    /\ h_out = <<>>

ClassifyText ==
    /\ h_pc = "in"
    /\ h_pc' = "out"
    /\ h_out' = LET components == identify_strategy_components(h_in)
                IN  [ components |-> components,
                      script_type |-> script_type(components) ]
    /\ UNCHANGED <<h_in, progVars>>

SpecText == InitText /\ [][ClassifyText]_vars

(***************************************************************************)
(* Specification of the complexity score: the category lists have any      *)
(* length up to their limits (and Slack beyond, for lists the extractor    *)
(* would not produce), and one step runs _calculate_complexity.            *)
(***************************************************************************)

Slack == 1

ListOf(n) == [i \in 1..n |-> <<"x">>]

ConceptLens == 0..(TopN + Slack)
ComponentLens == {0, 1, ComponentLimit}

InitScore ==
    /\ ProgIdle
    /\ h_pc = "in"
    /\ \E i \in ConceptLens, p \in ConceptLens, tf \in ConceptLens,
          en \in ComponentLens, ex \in ComponentLens, rk \in ComponentLens :
          h_in = [ concepts   |-> [ indicators |-> ListOf(i), patterns |-> ListOf(p),
                                    strategies |-> <<>>, conditions |-> <<>>,
                                    timeframes |-> ListOf(tf) ],
                   components |-> [ entry_conditions |-> ListOf(en),
                                    exit_conditions  |-> ListOf(ex),
                                    risk_management  |-> ListOf(rk),
                                    key_rules        |-> <<>> ] ]
    /\ h_out = 0

Score ==
    /\ h_pc = "in"
    /\ h_pc' = "out"
    /\ h_out' = _calculate_complexity(h_in.concepts, h_in.components)
    /\ UNCHANGED <<h_in, progVars>>

SpecScore == InitScore /\ [][Score]_vars

(***************************************************************************)
(* Specification of the identifier extraction: the URL is any              *)
(* concatenation of at most MaxUrlParts parts, and one step runs           *)
(* extract_video_id on it.                                                 *)
(***************************************************************************)

uId    == <<"a","1">>
uDash  == <<"b","-","2">>
uAmp   == <<"&","t","=">>
uVimeo == <<"v","i","m","e","o",".","c","o","m","/">>

UrlParts == {pWatch, pShort, pEmbed, pV, pShorts, uId, uDash, uAmp, uVimeo}

MaxUrlParts == 3

UrlTexts == {Concat(ts) : ts \in UNION {[1..n -> UrlParts] : n \in 0..MaxUrlParts}}

InitUrl ==
    /\ ProgIdle
    /\ h_pc = "in"
    /\ h_in \in UrlTexts
    /\ h_out = NoneV

ExtractId ==
    /\ h_pc = "in"
    /\ h_pc' = "out"
    /\ h_out' = extract_video_id(h_in)
    /\ UNCHANGED <<h_in, progVars>>

SpecUrl == InitUrl /\ [][ExtractId]_vars

(***************************************************************************)
(* Specification of the concept extraction: the text is empty or a list of *)
(* eleven different indicator names, followed by at most MaxWords words,   *)
(* and one step runs extract_key_concepts on it.                           *)
(***************************************************************************)

elevenIndicators ==
    <<"r","s","i"," ","m","a","c","d"," ","e","m","a"," ","s","m","a"," ","w","m","a"," ","a","t","r"," ","a","d","x"," ","f","i","b"," ","v","w","a","p"," ","c","c","i"," ","o","b","v"," ">>

wRsi      == <<"R","S","I"," ">>
wObv      == <<"o","b","v"," ">>
wFib      == <<"F","i","b","o","n","a","c","c","i"," ">>
wTrend    == <<"s","u","p","e","r","t","r","e","n","d"," ">>
wMomentum == <<"m","o","m","e","n","t","u","m","o","m","e","n","t","u","m"," ">>
wBand     == <<"B","o","l","l","i","n","g","e","r"," ","B","a","n","d","s"," ">>

Words == {wRsi, wObv, wFib, wTrend, wMomentum, wBand}

MaxWords == 2

ConceptTexts ==
    {pre \o Concat(ws) : pre \in {<<>>, elevenIndicators},
                         ws \in UNION {[1..n -> Words] : n \in 0..MaxWords}}

InitConcepts ==
    /\ ProgIdle
    /\ h_pc = "in"
    /\ h_in \in ConceptTexts
    /\ h_out = <<>>

ExtractConcepts ==
    /\ h_pc = "in"
    /\ h_pc' = "out"
    /\ h_out' = extract_key_concepts(h_in)
    /\ UNCHANGED <<h_in, progVars>>

SpecConcepts == InitConcepts /\ [][ExtractConcepts]_vars

(***************************************************************************)
(* Specification of the feasibility assessment: the strategies are up to   *)
(* MaxStrategies different names, the indicators the first names of the    *)
(* keyword list, up to the ten the extractor returns, and one step runs    *)
(* _assess_feasibility.                                                    *)
(***************************************************************************)

sScalping == <<"s","c","a","l","p","i","n","g">>
sDca      == <<"d","c","a">>
sFvg      == <<"f","a","i","r"," ","v","a","l","u","e"," ","g","a","p">>

StrategyNames == {sScalping, sDca, sFvg}

MaxStrategies == 2

StrategyLists ==
    {l \in UNION {[1..n -> StrategyNames] : n \in 0..MaxStrategies} :
        \A i \in 1..Len(l), j \in 1..Len(l) : i # j => l[i] # l[j]}

IndicatorLists == {SubSeq(kw_indicators, 1, n) : n \in 0..TopN}

InitFeasibility ==
    /\ ProgIdle
    /\ h_pc = "in"
    /\ \E st \in StrategyLists, ind \in IndicatorLists :
          h_in = [ concepts   |-> [ indicators |-> ind, patterns |-> <<>>,
                                    strategies |-> st, conditions |-> <<>>,
                                    timeframes |-> <<>> ],
                   components |-> [ entry_conditions |-> <<>>, exit_conditions |-> <<>>,
                                    risk_management |-> <<>>, key_rules |-> <<>> ] ]
    /\ h_out = <<>>

AssessFeasibility ==
    /\ h_pc = "in"
    /\ h_pc' = "out"
    /\ h_out' = _assess_feasibility(h_in.concepts, h_in.components)
    /\ UNCHANGED <<h_in, progVars>>

SpecFeasibility == InitFeasibility /\ [][AssessFeasibility]_vars

(***************************************************************************)
(* Claims about the pure analysis functions.                               *)
(***************************************************************************)

\* the sentences of a text as the claim reads them: the pieces between . ! ?
NoSentenceHasKeyword(text) ==
    LET raw == SplitSentences(text)
    IN  \A i \in 1..Len(raw) :
           /\ ~AnyIn(entry_keywords, Lower(raw[i]))
           /\ ~AnyIn(exit_keywords, Lower(raw[i]))

HasEntryKeyword(text) == AnyIn(entry_keywords, Lower(text))
HasExitKeyword(text) == AnyIn(exit_keywords, Lower(text))

\* some sentence of at least 10 characters has an entry keyword with one of
\* when/if/once, or an exit keyword with one of when/if/at
HasConditionSentence(text) ==
    LET raw == SplitSentences(text)
    IN  \E i \in 1..Len(raw) :
           LET sl == Lower(Strip(raw[i]))
           IN  /\ Len(sl) >= 10
               /\ \/ /\ \E k \in 1..Len(entry_keywords) : Contains(sl, entry_keywords[k])
                     /\ \E w \in {kwWhen, kwIf, kwOnce} : Contains(sl, w)
                  \/ /\ \E k \in 1..Len(exit_keywords) : Contains(sl, exit_keywords[k])
                     /\ \E w \in {kwWhen, kwIf, kwAt} : Contains(sl, w)

\* C5 as stated: no entry/exit keyword in any sentence gives "indicator", and a
\* transcript with both an entry and an exit keyword gives "strategy".
C5_AsStated ==
    h_pc = "out" =>
        /\ NoSentenceHasKeyword(h_in) => h_out.script_type = "indicator"
        /\ (HasEntryKeyword(h_in) /\ HasExitKeyword(h_in))
              => h_out.script_type = "strategy"

\* C5 amended: no entry/exit keyword in any sentence gives "indicator", and a
\* transcript gives "strategy" when one of its sentences, at least 10 characters long
\* once stripped, holds an entry keyword together with when/if/once or an exit
\* keyword together with when/if/at.
C5_ScriptType ==
    h_pc = "out" =>
        /\ NoSentenceHasKeyword(h_in) => h_out.script_type = "indicator"
        /\ HasConditionSentence(h_in) => h_out.script_type = "strategy"

\* a classified transcript with an entry keyword and a condition word only
C5_Witness ==
    /\ h_pc = "out"
    /\ HasConditionSentence(h_in)
    /\ HasEntryKeyword(h_in)
    /\ ~HasExitKeyword(h_in)
    /\ h_out.script_type = "strategy"

\* C8: the complexity score is an integer between 1 and 10, whatever the lengths
\* of the category lists, the empty and the longest ones included.
C8_ScoreInRange == h_pc = "out" => h_out \in 1..10

\* a score computed from lists that are all at their maximum length
C8_Witness ==
    /\ h_pc = "out"
    /\ Len(h_in.concepts.indicators) = TopN
    /\ Len(h_in.concepts.patterns) = TopN
    /\ Len(h_in.concepts.timeframes) = TopN
    /\ Len(h_in.components.entry_conditions) = ComponentLimit
    /\ Len(h_in.components.exit_conditions) = ComponentLimit
    /\ Len(h_in.components.risk_management) = ComponentLimit
    /\ h_out = 10

(***************************************************************************)
(* Claims about get_transcript and its cache.                              *)
(***************************************************************************)

\* C1 as stated: of two get_transcript calls in a row with the same identifier,
\* the first of which returned, only the first invokes the network path, whatever
\* the services answered.
C1_AsStated ==
    \A i \in 1..(Len(calls) - 1) :
       (calls[i].id = calls[i + 1].id /\ calls[i].ret \in {"text", "none"})
          => calls[i + 1].net = 0

\* C1 amended: of two get_transcript calls in a row with the same identifier, the
\* first of which returned a transcript, the second invokes no network path and
\* returns the transcript from the cache file.
C1_CacheHitNoNetwork ==
    \A i \in 1..(Len(calls) - 1) :
       (calls[i].id = calls[i + 1].id /\ calls[i].ret = "text")
          => (calls[i + 1].net = 0 /\ calls[i + 1].ret = "text")

\* two calls for one identifier: the first fetched over the network, the second did not
C1_Witness ==
    /\ Len(calls) = 2
    /\ calls[1].id = calls[2].id
    /\ calls[1].net > 0
    /\ calls[1].ret = "text"
    /\ calls[2].net = 0
    /\ calls[2].ret = "text"

MethodRank(e) ==
    CASE e = "try_manual" -> 1
      [] e = "try_auto" -> 2
      [] e = "try_any" -> 3
      [] e = "try_whisper" -> 4
      [] OTHER -> 0

IsMethod(e) == MethodRank(e) > 0

MethodTag(e) ==
    CASE e = "try_manual" -> "manual_captions"
      [] e = "try_auto" -> "auto_captions"
      [] e = "try_any" -> "english_captions"
      [] OTHER -> "whisper"

\* the methods the current run has attempted, in order
Tried == SelectSeq(trace, IsMethod)

\* C2: without the force flag the methods are attempted in the order manual, auto,
\* any-English, speech-to-text, each at most once; none is attempted after one has
\* yielded a transcript; the method that yielded it gives the source tag.
C2_FallbackChain ==
    ~args.whisper =>
        /\ \A i, j \in 1..Len(Tried) :
              i < j => MethodRank(Tried[i]) < MethodRank(Tried[j])
        /\ \A j \in 1..Len(Tried) :
              MethodRank(Tried[j]) \in {2, 3} =>
                  (j > 1 /\ MethodRank(Tried[j - 1]) = MethodRank(Tried[j]) - 1)
        /\ \A i, j \in 1..Len(trace) :
              (i < j /\ trace[i] = "got_text") => ~IsMethod(trace[j])
        /\ ( /\ pc \in {"cache_open", "cache_dump", "got_transcript"}
             /\ \E i \in 1..Len(trace) : trace[i] = "got_text" )
              => /\ ~Falsy(loc.transcript)
                 /\ loc.source = MethodTag(Tried[Len(Tried)])

\* all four methods were attempted and the last one yielded the transcript
C2_Witness ==
    /\ ~args.whisper
    /\ pc = "got_transcript"
    /\ Tried = <<"try_manual", "try_auto", "try_any", "try_whisper">>
    /\ \E i \in 1..Len(trace) : trace[i] = "got_text"
    /\ loc.source = "whisper"

InTrace(e) == \E i \in 1..Len(trace) : trace[i] = e

\* C6 as stated: with the force flag get_transcript never enters the caption path
\* and every transcript it returns carries a source tag derived from "whisper".
C6_AsStated ==
    args.whisper =>
        /\ ~InTrace("get_transcript_from_youtube")
        /\ (pc = "got_transcript" /\ ~Falsy(loc.transcript))
              => loc.source \in {"whisper", "whisper_cached"}

\* C7: a complete cache record never changes, it is the record the first successful
\* fetch for its identifier wrote, and a cache file changes only during a call for
\* its identifier that found no cache file.
C7_CacheImmutable ==
    [][ \A v \in VideoIds :
           /\ cache[v].kind = "record" => cache'[v] = cache[v]
           /\ cache'[v] # cache[v] =>
                 (InCall /\ ThisCall.id = v /\ ~ThisCall.exists)
           /\ cache'[v].kind = "record" => cache'[v] = firstWrite'[v] ]_vars

\* a forced run returned from the cache a record that an earlier run wrote
C7_Witness ==
    /\ Len(calls) = 2
    /\ calls[1].id = calls[2].id
    /\ ~calls[1].exists
    /\ calls[2].exists
    /\ calls[2].ret = "text"
    /\ args.whisper
    /\ cache[calls[1].id].kind = "record"
    /\ cache[calls[1].id] = firstWrite[calls[1].id]

(***************************************************************************)
(* Claims about analyze, main and the files they leave.                    *)
(***************************************************************************)

\* C3 as stated: a failure result, or an exception or interrupt escaping main,
\* makes the process exit with a non-zero code, whatever the flags.
C3_AsStated ==
    ( /\ pc = "done"
      /\ \/ result.returned /\ ~result.success
         \/ InTrace("Exception")
         \/ InTrace("KeyboardInterrupt") ) => exitCode[1] # 0

\* C4 as stated: no exception leaves analyze; what it returns is a success record
\* or a failure with a message.
C4_AsStated ==
    /\ pc # "on_exception"
    /\ result.returned => (result.success \/ result.error # "")

\* C9 as stated: every run of analyze has persisted a report file named with the
\* video identifier and a timestamp.
C9_AsStated ==
    result.returned =>
        /\ result.saved_to # NoneV
        /\ result.saved_to[1] \in reports

\* C9 amended: a run of analyze that returns success has persisted exactly one
\* report file, named with its video identifier and the time of the run; a run
\* that returns a failure writes none.
C9_ReportPerSuccess ==
    [][ /\ (result'.returned /\ result'.success) =>
              /\ result'.saved_to = Some(<<VideoIdOf[args'.url][1], clock'>>)
              /\ result'.saved_to[1] \in reports'
        /\ reports' # reports =>
              /\ ~result.returned
              /\ result'.returned
              /\ result'.success
              /\ reports' = reports \cup {result'.saved_to[1]}
        /\ (result'.returned /\ ~result'.success) => result'.saved_to = NoneV ]_vars

\* two runs succeeded and each left its own report
C9_Witness ==
    /\ pc = "done"
    /\ runs = 2
    /\ result.success
    /\ result.saved_to[1] \in reports
    /\ Cardinality(reports) = 2

LastEvent == trace[Len(trace)]

NoSetAfterClear ==
    \A i, j \in 1..Len(trace) :
       (i < j /\ trace[i] \in {"clear_status", "clear_status_failed"})
          => trace[j] # "set_status"

\* C10 as stated: when the process has exited the status file is gone, and it was
\* not written after being cleared.
C10_AsStated == pc = "done" => (status = "absent" /\ NoSetAfterClear)

\* C10 amended: on every path the process ends with a call of clear_status that no
\* set_status follows, and the status file is gone unless that removal failed (a
\* failure clear_status ignores).
C10_ClearedBestEffort ==
    pc = "done" =>
        /\ LastEvent \in {"clear_status", "clear_status_failed"}
        /\ (status = "absent" \/ LastEvent = "clear_status_failed")
        /\ NoSetAfterClear

\* an exception ended a run that had written the status file, and the file is gone
C10_Witness ==
    /\ pc = "done"
    /\ InTrace("Exception")
    /\ InTrace("set_status")
    /\ LastEvent = "clear_status"
    /\ status = "absent"

(***************************************************************************)
(* Claims about extract_video_id.                                          *)
(***************************************************************************)

\* the five supported URL shapes, in the order the claim lists them
Shapes ==
    << <<"y","o","u","t","u","b","e",".","c","o","m","/","w","a","t","c","h","?","v","=">>,
       <<"y","o","u","t","u",".","b","e","/">>,
       <<"y","o","u","t","u","b","e",".","c","o","m","/","e","m","b","e","d","/">>,
       <<"y","o","u","t","u","b","e",".","c","o","m","/","v","/">>,
       <<"y","o","u","t","u","b","e",".","c","o","m","/","s","h","o","r","t","s","/">> >>

\* url holds the shape at position i, followed by an identifier of exactly n
\* characters (letters, digits, underscore, hyphen)
HasShapeAt(url, shape, i, n) ==
    LET b == i + Len(shape)
    IN  /\ n >= 1
        /\ b + n - 1 <= Len(url)
        /\ SubSeq(url, i, b - 1) = shape
        /\ \A j \in b..(b + n - 1) : url[j] \in WordChars
        /\ (b + n <= Len(url) => url[b + n] \notin WordChars)

HasShape(url, shape) ==
    \E i \in 1..Len(url), n \in 1..Len(url) : HasShapeAt(url, shape, i, n)

\* the identifier that follows the leftmost occurrence of the shape
IsIdentifierOf(id, url, shape) ==
    \E i \in 1..Len(url), n \in 1..Len(url) :
        /\ HasShapeAt(url, shape, i, n)
        /\ \A i2 \in 1..(i - 1), n2 \in 1..Len(url) : ~HasShapeAt(url, shape, i2, n2)
        /\ id = SubSeq(url, i + Len(shape), i + Len(shape) + n - 1)

\* C11: extract_video_id returns the identifier substring of the first of the five
\* shapes, in their listed order, that the URL matches, and None for a URL that
\* matches none of them.
C11_FirstShapeIdentifier ==
    h_pc = "out" =>
        IF \A k \in 1..Len(Shapes) : ~HasShape(h_in, Shapes[k])
        THEN h_out = NoneV
        ELSE LET k == CHOOSE k \in 1..Len(Shapes) :
                          /\ HasShape(h_in, Shapes[k])
                          /\ \A k2 \in 1..(k - 1) : ~HasShape(h_in, Shapes[k2])
             IN  /\ h_out # NoneV
                 /\ IsIdentifierOf(h_out[1], h_in, Shapes[k])

\* a URL that matches the youtu.be shape and, further right, the watch?v= shape with
\* another identifier: the identifier of the watch?v= shape is returned
C11_Witness ==
    /\ h_pc = "out"
    /\ HasShape(h_in, Shapes[1])
    /\ HasShape(h_in, Shapes[2])
    /\ h_out # NoneV
    /\ ~IsIdentifierOf(h_out[1], h_in, Shapes[2])
    /\ IsIdentifierOf(h_out[1], h_in, Shapes[1])

(***************************************************************************)
(* Claims about extract_key_concepts.                                      *)
(***************************************************************************)

KeywordsOf ==
    [ indicators |-> kw_indicators, patterns |-> kw_patterns,
      strategies |-> kw_strategies, conditions |-> kw_conditions,
      timeframes |-> kw_timeframes ]

Categories == DOMAIN KeywordsOf

\* the positions at which p starts in s
Positions(s, p) == {i \in 1..(Len(s) - Len(p) + 1) : SubSeq(s, i, i + Len(p) - 1) = p}

\* the number of times s contains p: the most occurrences that do not overlap
Occurrences(s, p) ==
    LET pos == Positions(s, p)
        apart(P) == \A i \in P, j \in P : i # j => (i - j >= Len(p) \/ j - i >= Len(p))
    IN  IF apart(pos) THEN Cardinality(pos)
        ELSE CHOOSE n \in 1..Cardinality(pos) :
                 /\ \E P \in SUBSET pos : apart(P) /\ Cardinality(P) = n
                 /\ \A P \in SUBSET pos : apart(P) => Cardinality(P) <= n

\* the occurrence counts of the keywords of a list, in list order
OccurrencesOf(s, keywords) ==
    [k \in 1..Len(keywords) |-> Occurrences(s, keywords[k])]

IndexIn(list, x) == {i \in 1..Len(list) : list[i] = x}

\* keyword k of the list is among the first TopN found keywords when they are
\* ranked by count, highest first, equal counts in list order
InTopN(occ, k) ==
    /\ occ[k] >= 1
    /\ Cardinality({a \in DOMAIN occ :
                       /\ occ[a] >= 1
                       /\ (occ[a] > occ[k] \/ (occ[a] = occ[k] /\ a < k))}) < TopN

\* C12 as stated: every keyword the text contains N >= 1 times is reported, exactly
\* once, in the list of its category.
C12_AsStated ==
    h_pc = "out" =>
        \A c \in Categories :
            LET occ == OccurrencesOf(Lower(h_in), KeywordsOf[c])
            IN  \A k \in DOMAIN occ :
                    occ[k] >= 1 => Cardinality(IndexIn(h_out[c], KeywordsOf[c][k])) = 1

\* C12 amended: the list of a category holds keyword strings only; a keyword the text
\* contains N >= 1 times is in it, exactly once, when fewer than ten found keywords of
\* the category rank before it by count (equal counts in list order), and in no other
\* case; the list is in descending order of N.
C12_RankedTopTen ==
    h_pc = "out" =>
        \A c \in Categories :
            LET kws == KeywordsOf[c]
                occ == OccurrencesOf(Lower(h_in), kws)
                out == h_out[c]
            IN  /\ Len(out) <= TopN
                /\ \A i \in 1..Len(out) : \E k \in DOMAIN occ : out[i] = kws[k]
                /\ \A k \in DOMAIN occ :
                       Cardinality(IndexIn(out, kws[k])) = (IF InTopN(occ, k) THEN 1 ELSE 0)
                /\ \A i \in 1..Len(out), j \in 1..Len(out) :
                       i < j => Occurrences(Lower(h_in), out[i]) >= Occurrences(Lower(h_in), out[j])

\* a text with twelve indicator names, one of them written in capitals and twice:
\* that one is listed first and the list stops at ten
C12_Witness ==
    /\ h_pc = "out"
    /\ Len(h_out.indicators) = TopN
    /\ h_out.indicators[1] = kw_indicators[1]
    /\ Occurrences(Lower(h_in), kw_indicators[1]) = 2
    /\ Occurrences(Lower(h_in), <<"o","b","v">>) = 1
    /\ IndexIn(h_out.indicators, <<"o","b","v">>) = {}

(***************************************************************************)
(* Claims about the order of the steps of analyze.                         *)
(***************************************************************************)

\* the step of analyze an event of the trace belongs to (0: none of the five)
StepOf(e) ==
    CASE e = "extract_video_id" -> 1
      [] e = "get_video_metadata" -> 2
      [] e \in {"cache_check", "get_transcript_from_youtube", "try_manual", "try_auto",
                "try_any", "get_transcript_from_whisper", "try_whisper", "got_text",
                "cache_write"} -> 3
      [] e = "analyze_content" -> 4
      [] e = "save_analysis" -> 5
      [] OTHER -> 0

\* the latest step the run has performed
LastStep ==
    IF \A i \in 1..Len(trace) : StepOf(trace[i]) = 0 THEN 0
    ELSE LET i == CHOOSE i \in 1..Len(trace) :
                      /\ StepOf(trace[i]) > 0
                      /\ \A j \in (i + 1)..Len(trace) : StepOf(trace[j]) = 0
         IN  StepOf(trace[i])

StepsInOrder ==
    /\ \A i \in 1..Len(trace), j \in 1..Len(trace) :
           (i < j /\ StepOf(trace[i]) > 0 /\ StepOf(trace[j]) > 0)
               => (/\ StepOf(trace[i]) <= StepOf(trace[j])
                   /\ (StepOf(trace[i]) \in {1, 2, 4, 5}
                          => StepOf(trace[i]) < StepOf(trace[j])))
    /\ \A j \in 1..Len(trace) :
           StepOf(trace[j]) > 1
               => \E i \in 1..(j - 1) : StepOf(trace[i]) = StepOf(trace[j]) - 1

\* C13: the steps of analyze run in the order identifier extraction, metadata fetch,
\* transcript acquisition, content analysis, report persistence, none skipped; a
\* failure result of a step means no later step was performed (invalid URL: no
\* network or cache access; metadata failure: no transcript fetch or cache access;
\* no transcript: no content analysis and no report written), and a success result
\* means that all five were.
C13_StepsInOrder ==
    /\ StepsInOrder
    /\ (result.returned /\ ~result.success) =>
           /\ result.error \in {"Invalid YouTube URL", "Could not access video",
                                "Could not get transcript"}
           /\ (result.error = "Invalid YouTube URL" => LastStep = 1)
           /\ (result.error = "Could not access video" => LastStep = 2)
           /\ (result.error = "Could not get transcript" => LastStep = 3)
           /\ result.saved_to = NoneV
    /\ (result.returned /\ result.success) => LastStep = 5

\* a run that tried speech-to-text, obtained no transcript and has ended after the
\* third step
C13_Witness ==
    /\ pc = "done"
    /\ result.returned
    /\ result.error = "Could not get transcript"
    /\ LastStep = 3
    /\ InTrace("get_transcript_from_whisper")

(***************************************************************************)
(* Claims about what get_transcript leaves in the cache.                   *)
(***************************************************************************)

\* call j is the next call after call i with the same identifier
NextSameId(i, j) ==
    /\ i < j
    /\ calls[j].id = calls[i].id
    /\ \A k \in (i + 1)..(j - 1) : calls[k].id # calls[i].id

\* a call that returned no transcript attempted the network, left no cache file, and
\* the next call with its identifier finds none and attempts the network again
NoNegativeCaching ==
    \A i \in 1..Len(calls) :
        calls[i].ret = "none" =>
            /\ ~calls[i].exists
            /\ calls[i].net >= 1
            /\ ((\A j \in (i + 1)..Len(calls) : calls[j].id # calls[i].id)
                    => cache[calls[i].id] = Absent)
            /\ \A j \in (i + 1)..Len(calls) :
                   NextSameId(i, j) =>
                       /\ ~calls[j].exists
                       /\ (calls[j].ret \in {"text", "none"} => calls[j].net >= 1)

\* a step that changes a cache file is taken inside a call for that identifier that
\* holds a non-empty transcript, and the record it completes holds that transcript
WritesOnlyTranscripts ==
    \A v \in VideoIds :
        cache'[v] # cache[v] =>
            /\ InCall
            /\ ThisCall.id = v
            /\ ~Falsy(loc.transcript)
            /\ (cache'[v].kind = "record" => cache'[v].text = loc.transcript[1])

\* C14: get_transcript writes the cache file only when a method returned a non-empty
\* transcript; when captions and speech-to-text both fail or return empty text the
\* cache for the identifier stays absent, and the next call with the same identifier
\* attempts the network path again.
C14_NoNegativeCaching == [](NoNegativeCaching) /\ [][WritesOnlyTranscripts]_vars

\* two calls in a row for one identifier: the first tried captions and speech-to-text
\* and returned nothing, the second went to the network again
C14_Witness ==
    /\ Len(calls) = 2
    /\ calls[1].id = calls[2].id
    /\ calls[1].ret = "none"
    /\ calls[1].net = 2
    /\ calls[2].net >= 1
    /\ cache[calls[1].id] = Absent

(***************************************************************************)
(* Claims about the source tag of a cached transcript.                     *)
(***************************************************************************)

\* the tags with which a fetch returns a transcript
FetchTags == {"manual_captions", "auto_captions", "english_captions", "whisper"}

\* the calls so far that were served from the cache file of an identifier
HitsOn(v) == {i \in 1..Len(calls) : calls[i].id = v /\ calls[i].exists /\ calls[i].ret = "text"}

\* C15: whatever the number of cache hits on an identifier, a hit returns the text
\* of the original fetch and the tag of the original fetch followed by one "_cached";
\* the tag in the cache file never carries the suffix.
C15_OneCachedSuffix ==
    /\ \A v \in VideoIds :
           cache[v].kind = "record" => (cache[v].source \in FetchTags /\ cache[v] = firstWrite[v])
    /\ (pc = "got_transcript" /\ ThisCall.exists /\ ThisCall.ret = "text") =>
           LET original == firstWrite[ThisCall.id]
           IN  /\ original.kind = "record"
               /\ loc.transcript = Some(original.text)
               /\ original.source \in FetchTags
               /\ loc.source = original.source \o "_cached"

\* the second cache hit on an identifier returns the tag with one suffix
C15_Witness ==
    /\ pc = "got_transcript"
    /\ Len(calls) = 3
    /\ Cardinality(HitsOn(ThisCall.id)) = 2
    /\ 3 \in HitsOn(ThisCall.id)
    /\ loc.source = "auto_captions_cached"

(***************************************************************************)
(* Claims about the caption path when find_transcript selects among the    *)
(* listed transcripts.                                                     *)
(***************************************************************************)

\* the list holds an English transcript that is (generated = TRUE) or is not
\* (generated = FALSE) auto-generated
ListsEnglish(tlist, generated) ==
    \E i \in 1..Len(tlist) :
        tlist[i].language_code \in {"en", "en-US", "en-GB"} /\ tlist[i].is_generated = generated

\* C16: the any-English step is reached only when the list holds no transcript with an
\* English code, so it never succeeds: no result and no cache record carries the tag
\* "english_captions", a transcript is fetched from the caption path under the tag
\* "manual_captions" exactly when a manual English transcript is listed and under
\* "auto_captions" exactly when only auto-generated English ones are.
C16_EnglishCaptionsUnreachable ==
    /\ loc.source # "english_captions"
    /\ \A v \in VideoIds : cache[v].source # "english_captions"
    /\ pc = "yt_any" =>
           (~ListsEnglish(loc.tlist, FALSE) /\ ~ListsEnglish(loc.tlist, TRUE))
    /\ pc = "yt_fetch" =>
           /\ loc.track # NoneV
           /\ loc.track[1].language_code \in {"en", "en-US", "en-GB"}
           /\ (loc.source = "manual_captions") = ListsEnglish(loc.tlist, FALSE)
           /\ (loc.source = "auto_captions") =
                  (~ListsEnglish(loc.tlist, FALSE) /\ ListsEnglish(loc.tlist, TRUE))
           /\ loc.track[1].is_generated = (loc.source = "auto_captions")
    /\ (pc = "cache_open" /\ ~InTrace("get_transcript_from_whisper")) =>
           loc.source \in {"manual_captions", "auto_captions"}

\* a list with an auto-generated English transcript first and a manual one after it:
\* the manual one is about to be fetched
C16_Witness ==
    /\ pc = "yt_fetch"
    /\ Len(loc.tlist) = 2
    /\ loc.tlist[1].is_generated
    /\ loc.tlist[1].language_code = "en-GB"
    /\ loc.track = Some(loc.tlist[2])
    /\ loc.source = "manual_captions"

(***************************************************************************)
(* Claims about _assess_feasibility.                                       *)
(***************************************************************************)

\* C17: in every feasibility report overall is "full" exactly when the issues list is
\* empty, exactly when pine_script_compatible is true, and overall is "partial"
\* otherwise.
C17_FlagsAgree ==
    h_pc = "out" =>
        /\ h_out.overall \in {"full", "partial"}
        /\ (h_out.overall = "full") = (h_out.issues = <<>>)
        /\ (h_out.issues = <<>>) = h_out.pine_script_compatible
        /\ (h_out.overall = "partial") = (h_out.overall # "full")

\* a report with no problematic term and more than five indicators: one issue,
\* "partial", not compatible
C17_Witness ==
    /\ h_pc = "out"
    /\ h_in.concepts.strategies = <<>>
    /\ Len(h_in.concepts.indicators) = ManyIndicators + 1
    /\ Len(h_out.issues) = 1
    /\ h_out.overall = "partial"
    /\ ~h_out.pine_script_compatible

====
